---- MODULE Spec2Model ----
(***************************************************************************)
(* A model of do2to3.py: the incremental mirror synchroniser (do_update),  *)
(* the 2to3 batch runner (run2to3) and the orchestrator (main).            *)
(*                                                                         *)
(* File names are sequences of characters and paths are sequences of      *)
(* names, so that str.startswith / str.endswith / sorted() are modelled by *)
(* what they do.  Modification times are integers counted in ticks of half *)
(* a microsecond, so that the millisecond rounding of the staleness test   *)
(* and the microsecond accuracy of the metadata copy are both visible.     *)
(***************************************************************************)
EXTENDS Integers, Sequences, FiniteSets, TLC

(* ----------------------------- bounds ---------------------------------- *)
\* the events of a behaviour: program invocations (python do2to3.py), edits
\* of the source tree, and faults (a nonzero status from 2to3, an interrupt)
MaxEvents == 3
\* the staleness test on its own is tried on mtimes of 1 .. MaxCmpMs
\* milliseconds plus a fraction of a millisecond
MaxCmpMs == 3
\* avoid_bug19111 on its own is tried on files of up to MaxLines lines
MaxLines == 3

(* ----------------------------- time ------------------------------------ *)
\* resolution of st_mtime in the model: ticks per second (0.5 us per tick)
TicksPerSec == 2000000
\* "* 1000": the staleness test compares milliseconds
MilliScale == 1000
\* "when copying only microsecond accuracy is used"
MicroScale == 1000000
\* the post-copy assertion: abs(difference) < 0.0001 s, i.e. 1/10000 s
TolPerSec == 10000

\* Python 3 round(num/den) for a non-negative quotient: nearest integer, a
\* tie going to the even neighbour.
RoundHalfEven(num, den) ==
    LET q == num \div den
        r == num % den
    IN  IF 2 * r < den THEN q
        ELSE IF 2 * r > den THEN q + 1
        ELSE IF q % 2 = 0 THEN q ELSE q + 1

\* round(os.stat(p).st_mtime * 1000) for a file whose mtime is t ticks
RoundMs(t) == RoundHalfEven(t * MilliScale, TicksPerSec)

\* a time stamp cut to whole microseconds
TruncUs(t) == t - (t % (TicksPerSec \div MicroScale))

(* ----------------------------- names ----------------------------------- *)
Range(s) == { s[i] : i \in 1..Len(s) }

\* the characters used in the names of the model, with their ASCII codes
AsciiTable ==
    << <<"$", 36>>, <<".", 46>>, <<"/", 47>>, <<"3", 51>>, <<"B", 66>>,
       <<"D", 68>>, <<"_", 95>>, <<"a", 97>>, <<"b", 98>>, <<"c", 99>>,
       <<"d", 100>>, <<"i", 105>>, <<"k", 107>>, <<"l", 108>>,
       <<"n", 110>>, <<"o", 111>>, <<"p", 112>>, <<"s", 115>>,
       <<"t", 116>>, <<"u", 117>>, <<"w", 119>>, <<"x", 120>>,
       <<"y", 121>>, <<"~", 126>> >>

Ord(c) == (CHOOSE e \in Range(AsciiTable) : e[1] = c)[2]

\* str.startswith and str.endswith
StartsWith(s, pre) ==
    /\ Len(s) >= Len(pre)
    /\ SubSeq(s, 1, Len(pre)) = pre

EndsWith(s, suf) ==
    /\ Len(s) >= Len(suf)
    /\ SubSeq(s, Len(s) - Len(suf) + 1, Len(s)) = suf

\* s < t for Python strings: lexicographic by code point
RECURSIVE StrLess(_, _)
StrLess(s, t) ==
    IF t = <<>> THEN FALSE
    ELSE IF s = <<>> THEN TRUE
    ELSE IF Ord(Head(s)) # Ord(Head(t)) THEN Ord(Head(s)) < Ord(Head(t))
    ELSE StrLess(Tail(s), Tail(t))

\* os.path.join of the components of a path
RECURSIVE JoinPath(_)
JoinPath(p) ==
    IF p = <<>> THEN <<>>
    ELSE IF Len(p) = 1 THEN p[1]
    ELSE p[1] \o <<"/">> \o JoinPath(Tail(p))

nBio == <<"B", "i", "o">>
nDoc == <<"D", "o", "c">>
nPy3k == <<"_", "p", "y", "3", "k">>
nSub == <<"s", "u", "b">>
nA == <<"a", ".", "p", "y">>
nK == <<"k", ".", "p", "y">>
nN == <<"n", ".", "p", "y">>
nT == <<"t", ".", "p", "y">>
nData == <<"d", ".", "b", "i", "n">>
nX == <<"x">>
nHidden == <<".", "a", ".", "p", "y">>
nTilde == <<"a", ".", "p", "y", "~">>
nBak == <<"a", ".", "b", "a", "k">>
nSwp == <<"a", ".", "s", "w", "p">>
nPyc == <<"a", ".", "p", "y", "c">>
nJython == <<"a", "$", "p", "y", ".", "c", "l", "a", "s", "s">>

sDot == <<".">>
sTilde == <<"~">>
sBak == <<".", "b", "a", "k">>
sSwp == <<".", "s", "w", "p">>
sPyc == <<".", "p", "y", "c">>
sJython == <<"$", "p", "y", ".", "c", "l", "a", "s", "s">>
sPy == <<".", "p", "y">>

(* ----------------------------- paths ----------------------------------- *)
\* Paths are relative to python2_source (the source tree) and to
\* python3_source (the mirror tree): the first component is the child.
pBio == <<nBio>>
pPy3k == <<nBio, nPy3k>>
pSub == <<nBio, nPy3k, nSub>>
pDoc == <<nDoc>>
pX == <<nDoc, nX>>
fA == <<nBio, nA>>
fD == <<nBio, nData>>
fK == <<nBio, nPy3k, nK>>
fN == <<nBio, nPy3k, nSub, nN>>
fT == <<nDoc, nT>>

IgnoredNames == {nHidden, nTilde, nBak, nSwp, nPyc, nJython}
IgnoredPaths == { <<nBio, n>> : n \in IgnoredNames }

\* pX is the one path that is a file at some times and a directory at others
DirPaths == {pBio, pPy3k, pSub, pDoc, pX}
FilePaths == {fA, fD, fK, fN, fT, pX} \cup IgnoredPaths
Paths == DirPaths \cup FilePaths

Parent(p) == SubSeq(p, 1, Len(p) - 1)
Base(p) == p[Len(p)]
IsUnder(p, d) == Len(p) >= Len(d) /\ SubSeq(p, 1, Len(d)) = d

(* ----------------------------- file system ----------------------------- *)
\* stage of a file's content: "copied" is the verbatim Python 2 text,
\* "partial" has the main body converted and the doctests not, "converted"
\* has been through both passes.
NoEntry == [kind |-> "none", mtime |-> 0, lines |-> <<>>, stage |-> "none"]
DirEntry == [kind |-> "dir", mtime |-> 0, lines |-> <<>>, stage |-> "none"]
FileEntry(t, ls, st) == [kind |-> "file", mtime |-> t, lines |-> ls, stage |-> st]

EmptyTree == [p \in Paths |-> NoEntry]

\* os.path.isdir, os.path.isfile
IsDir(fs, p) == p \in Paths /\ fs[p].kind = "dir"
IsFile(fs, p) == p \in Paths /\ fs[p].kind = "file"

\* os.mkdir, os.remove, shutil.rmtree
Mkdir(fs, p) == [fs EXCEPT ![p] = DirEntry]
Remove(fs, p) == [fs EXCEPT ![p] = NoEntry]
RmTree(fs, d) == [p \in Paths |-> IF IsUnder(p, d) THEN NoEntry ELSE fs[p]]

\* sorted() of a list of strings, by insertion
RECURSIVE InsertStr(_, _)
InsertStr(x, s) ==
    IF s = <<>> THEN <<x>>
    ELSE IF StrLess(x, Head(s)) THEN <<x>> \o s
    ELSE <<Head(s)>> \o InsertStr(x, Tail(s))

RECURSIVE SortedStrs(_)
SortedStrs(s) ==
    IF s = <<>> THEN <<>> ELSE InsertStr(Head(s), SortedStrs(Tail(s)))

RECURSIVE SetToSeq(_)
SetToSeq(S) ==
    IF S = {} THEN <<>>
    ELSE LET x == CHOOSE y \in S : TRUE IN <<x>> \o SetToSeq(S \ {x})

Reverse(s) == [i \in 1..Len(s) |-> s[Len(s) + 1 - i]]

\* The names os.walk lists in directory d with the given kind.  The order of
\* os.listdir is arbitrary: the model offers ascending and descending.
Listing(fs, d, kind, desc) ==
    LET names == { Base(p) : p \in { q \in Paths : Parent(q) = d /\ fs[q].kind = kind } }
        asc == SortedStrs(SetToSeq(names))
    IN  IF desc THEN Reverse(asc) ELSE asc

\* sorted(to_convert): the queue holds paths, compared as the strings
\* os.path.join built (they share the prefix python3_source)
PathOf(str) == CHOOSE p \in Paths : JoinPath(p) = str
RECURSIVE PathStrs(_)
PathStrs(ps) ==
    IF ps = <<>> THEN <<>> ELSE <<JoinPath(Head(ps))>> \o PathStrs(Tail(ps))
RECURSIVE StrPaths(_)
StrPaths(ss) ==
    IF ss = <<>> THEN <<>> ELSE <<PathOf(Head(ss))>> \o StrPaths(Tail(ss))
\* Sorted leaving the list in the order of the walk
SortedAsWalked(ps) == ps
Sorted(ps) == StrPaths(SortedStrs(PathStrs(ps)))

(* ----------------------------- do_update: prune pass -------------------- *)
\* os.path.join(py2folder, relpath, name) and os.path.join(py3folder, relpath,
\* name): the same relative path below python2_source and python3_source
OldPath(child, rel, name) == <<child>> \o rel \o <<name>>
NewPath(child, rel, name) == <<child>> \o rel \o <<name>>

\* PruneDirs with os.rmdir semantics in place of shutil.rmtree: what the
\* directory holds is left behind
RECURSIVE PruneDirsShallow(_, _, _, _, _)
PruneDirsShallow(s, m, child, rel, dirnames) ==
    IF dirnames = <<>> THEN m
    ELSE LET d == Head(dirnames)
             m1 == IF ~IsDir(s, OldPath(child, rel, d))
                   THEN Remove(m, NewPath(child, rel, d))
                   ELSE m
         IN  PruneDirsShallow(s, m1, child, rel, Tail(dirnames))

\* "for d in dirnames: if not os.path.isdir(old): shutil.rmtree(new)"
RECURSIVE PruneDirs(_, _, _, _, _)
PruneDirs(s, m, child, rel, dirnames) ==
    IF dirnames = <<>> THEN m
    ELSE LET d == Head(dirnames)
             m1 == IF ~IsDir(s, OldPath(child, rel, d))
                   THEN RmTree(m, NewPath(child, rel, d))
                   ELSE m
         IN  PruneDirs(s, m1, child, rel, Tail(dirnames))

\* "for f in filenames: if not os.path.isfile(old): os.remove(new)"
RECURSIVE PruneFiles(_, _, _, _, _)
PruneFiles(s, m, child, rel, filenames) ==
    IF filenames = <<>> THEN m
    ELSE LET f == Head(filenames)
             m1 == IF ~IsFile(s, OldPath(child, rel, f))
                   THEN Remove(m, NewPath(child, rel, f))
                   ELSE m
         IN  PruneFiles(s, m1, child, rel, Tail(filenames))

\* os.walk(py3folder), top down: the loop body on (dirpath, dirnames,
\* filenames), then the walk descends into each of dirnames that can still
\* be listed (a directory the body removed is skipped silently).
RECURSIVE PruneWalk(_, _, _, _, _)
RECURSIVE PruneInto(_, _, _, _, _, _)
PruneWalk(s, m, child, rel, desc) ==
    LET dirnames == Listing(m, <<child>> \o rel, "dir", desc)
        filenames == Listing(m, <<child>> \o rel, "file", desc)
        m1 == PruneDirs(s, m, child, rel, dirnames)
        m2 == PruneFiles(s, m1, child, rel, filenames)
    IN  PruneInto(s, m2, child, rel, dirnames, desc)

PruneInto(s, m, child, rel, dirnames, desc) ==
    IF dirnames = <<>> THEN m
    ELSE LET d == Head(dirnames)
             m1 == IF IsDir(m, NewPath(child, rel, d))
                   THEN PruneWalk(s, m, child, rel \o <<d>>, desc)
                   ELSE m
         IN  PruneInto(s, m1, child, rel, Tail(dirnames), desc)

(* ----------------------------- do_update: copy pass --------------------- *)
\* the three "continue" tests on the file name
IsHidden(f) == StartsWith(f, sDot)
IsBackup(f) == EndsWith(f, sTilde) \/ EndsWith(f, sBak) \/ EndsWith(f, sSwp)
\* IsCompiled without the ".pyc" test
IsCompiledJythonOnly(f) == EndsWith(f, sJython)
IsCompiled(f) == EndsWith(f, sPyc) \/ EndsWith(f, sJython)
Ignored(f) == IsHidden(f) \/ IsBackup(f) \/ IsCompiled(f)

\* st_mtime * 1000 cut to an integer instead of rounded
FloorMs(t) == (t * MilliScale) \div TicksPerSec

\* UpToDate with the milliseconds cut instead of rounded
UpToDateFloor(s, m, old, new) ==
    /\ IsFile(m, new)
    /\ FloorMs(m[new].mtime) >= FloorMs(s[old].mtime)

\* UpToDate with ">" for ">="
UpToDateStrict(s, m, old, new) ==
    /\ IsFile(m, new)
    /\ RoundMs(m[new].mtime) > RoundMs(s[old].mtime)

\* "os.path.isfile(new) and round(st_mtime(new) * 1000) >= round(st_mtime(old) * 1000)"
UpToDate(s, m, old, new) ==
    /\ IsFile(m, new)
    /\ RoundMs(m[new].mtime) >= RoundMs(s[old].mtime)

\* the time stamp shutil.copy2 gives the copy: the source's, or (with a
\* utime of microsecond accuracy) the source's cut to microseconds
CopiedMtime(t, us) == IF us THEN TruncUs(t) ELSE t

\* shutil.copy2(old, new): the bytes and the date stamp
Copy2(s, m, old, new, us) ==
    [m EXCEPT ![new] = FileEntry(CopiedMtime(s[old].mtime, us), s[old].lines, "copied")]

\* "assert abs(os.stat(old).st_mtime - os.stat(new).st_mtime) < 0.0001"
CopyAssert(s, m, old, new) ==
    LET diff == s[old].mtime - m[new].mtime
        absdiff == IF diff < 0 THEN 0 - diff ELSE diff
    IN  absdiff * TolPerSec < TicksPerSec

\* dirpath as os.walk reports it below py2folder = os.path.join(".", child)
DirPathStr(child, rel) == JoinPath(<<sDot, child>> \o rel)
\* the literal "./Bio/_py3k"
ExcludedDir == <<".", "/", "B", "i", "o", "/", "_", "p", "y", "3", "k">>
IsExcludedDir(child, rel) == DirPathStr(child, rel) = ExcludedDir

IsPy(f) == EndsWith(f, sPy)

\* The state of the copy pass: the mirror, to_convert, and what the pass did
\* (copied: the files shutil.copy2 wrote; err: the exception raised, if any).
CopyState(m) == [mir |-> m, to_convert |-> <<>>, copied |-> {}, err |-> "none"]

\* CopyFile queueing a file it finds current as well
CopyFileQueueCurrent(s, st, child, rel, f, us) ==
    LET old == OldPath(child, rel, f)
        new == NewPath(child, rel, f)
        current == UpToDate(s, st.mir, old, new)
        m1 == IF current THEN st.mir ELSE Copy2(s, st.mir, old, new, us)
        st1 == IF current THEN st
               ELSE [st EXCEPT !.mir = m1, !.copied = @ \cup {new}]
    IN  IF st.err # "none" THEN st
        ELSE IF Ignored(f) THEN st
        ELSE IF ~CopyAssert(s, m1, old, new) /\ ~current
        THEN [st1 EXCEPT !.err = "AssertionError"]
        ELSE IF IsExcludedDir(child, rel) THEN st1
        ELSE IF IsPy(f) THEN [st1 EXCEPT !.to_convert = Append(@, new)]
        ELSE st1

\* the body of "for f in filenames" for one f
CopyFile(s, st, child, rel, f, us) ==
    LET old == OldPath(child, rel, f)
        new == NewPath(child, rel, f)
    IN  IF st.err # "none" THEN st
        ELSE IF Ignored(f) THEN st
        ELSE IF UpToDate(s, st.mir, old, new) THEN st
        ELSE LET m1 == Copy2(s, st.mir, old, new, us)
                 st1 == [st EXCEPT !.mir = m1, !.copied = @ \cup {new}]
             IN  IF ~CopyAssert(s, m1, old, new)
                 THEN [st1 EXCEPT !.err = "AssertionError"]
                 ELSE IF IsExcludedDir(child, rel) THEN st1
                 ELSE IF IsPy(f) THEN [st1 EXCEPT !.to_convert = Append(@, new)]
                 ELSE st1

RECURSIVE CopyFiles(_, _, _, _, _, _)
CopyFiles(s, st, child, rel, filenames, us) ==
    IF filenames = <<>> THEN st
    ELSE CopyFiles(s, CopyFile(s, st, child, rel, Head(filenames), us),
                   child, rel, Tail(filenames), us)

\* "for d in dirnames: if not os.path.isdir(new): os.mkdir(new)"
RECURSIVE MakeDirs(_, _, _, _)
MakeDirs(m, child, rel, dirnames) ==
    IF dirnames = <<>> THEN m
    ELSE LET new == NewPath(child, rel, Head(dirnames))
             m1 == IF ~IsDir(m, new) THEN Mkdir(m, new) ELSE m
         IN  MakeDirs(m1, child, rel, Tail(dirnames))

\* os.walk(py2folder), top down, with the loop body of the copy pass
RECURSIVE CopyWalk(_, _, _, _, _, _)
RECURSIVE CopyInto(_, _, _, _, _, _, _)
CopyWalk(s, st, child, rel, desc, us) ==
    LET dirnames == Listing(s, <<child>> \o rel, "dir", desc)
        filenames == Listing(s, <<child>> \o rel, "file", desc)
        st1 == IF st.err # "none" THEN st
               ELSE [st EXCEPT !.mir = MakeDirs(@, child, rel, dirnames)]
        st2 == CopyFiles(s, st1, child, rel, filenames, us)
    IN  CopyInto(s, st2, child, rel, dirnames, desc, us)

CopyInto(s, st, child, rel, dirnames, desc, us) ==
    IF dirnames = <<>> THEN st
    ELSE CopyInto(s, CopyWalk(s, st, child, rel \o <<Head(dirnames)>>, desc, us),
                  child, rel, Tail(dirnames), desc, us)

\* do_update up to "if to_convert:": the mirror root, the prune pass and the
\* copy pass.  The source root is known to exist.
PrunedTree(s, m, child, desc) ==
    LET m0 == IF ~IsDir(m, <<child>>) THEN Mkdir(m, <<child>>) ELSE m
    IN  PruneWalk(s, m0, child, <<>>, desc)

SyncTree(s, m, child, desc, us) ==
    CopyWalk(s, CopyState(PrunedTree(s, m, child, desc)), child, <<>>, desc, us)

(* ----------------------------- file contents ---------------------------- *)
\* A file is a sequence of lines; a line is its text, a sequence of
\* characters, and its terminator: "lf" (\n), "crlf" (\r\n) or, for a last
\* line that is not terminated, "none".
Line(text, eol) == [text |-> text, eol |-> eol]

\* the literal "from future_builtins import "
FuturePrefix ==
    <<"f", "r", "o", "m", " ", "f", "u", "t", "u", "r", "e", "_", "b", "u",
      "i", "l", "t", "i", "n", "s", " ", "i", "m", "p", "o", "r", "t", " ">>

\* "from future_builtins import zip", "x = 1", the import indented, and
\* "from future_builtins import" with nothing after it
tFuture == FuturePrefix \o <<"z", "i", "p">>
tCode == <<"x", " ", "=", " ", "1">>
tIndented == <<" ">> \o tFuture
tBare == SubSeq(FuturePrefix, 1, Len(FuturePrefix) - 1)

\* line.startswith("from future_builtins import "): the terminator of the
\* line cannot take part in the match, the literal ending in a space
IsFutureImport(line) == StartsWith(line.text, FuturePrefix)

\* the text of each source file, and whether 2to3 finds anything to rewrite
SrcLines(p) ==
    IF p = fA THEN <<Line(tFuture, "lf"), Line(tCode, "lf")>>
    ELSE <<Line(tCode, "lf")>>
NeedsRewrite(p) == p # fT

\* list(open(filename, "rU")): universal newlines, every terminator is read
\* as "\n"
ReadLines(ls) ==
    [i \in 1..Len(ls) |->
        Line(ls[i].text, IF ls[i].eol = "none" THEN "none" ELSE "lf")]

\* h.write(l) on open(filename, "w"): text mode, "\n" is written as
\* os.linesep
WriteLines(ls, sep) ==
    [i \in 1..Len(ls) |->
        Line(ls[i].text, IF ls[i].eol = "lf" THEN sep ELSE ls[i].eol)]

\* DropFutureImports dropping the first such line only
RECURSIVE DropFirstFutureImport(_)
DropFirstFutureImport(ls) ==
    IF ls = <<>> THEN <<>>
    ELSE IF IsFutureImport(Head(ls)) THEN Tail(ls)
    ELSE <<Head(ls)>> \o DropFirstFutureImport(Tail(ls))

\* [l for l in lines if not l.startswith("from future_builtins import ")]
RECURSIVE DropFutureImports(_)
DropFutureImports(ls) ==
    IF ls = <<>> THEN <<>>
    ELSE IF IsFutureImport(Head(ls)) THEN DropFutureImports(Tail(ls))
    ELSE <<Head(ls)>> \o DropFutureImports(Tail(ls))

\* avoid_bug19111(filename), run at time t where os.linesep is sep: the file
\* is written only when a line had to go
AvoidBug19111(m, f, t, sep) ==
    LET lines == ReadLines(m[f].lines)
        fix == \E i \in 1..Len(lines) : IsFutureImport(lines[i])
    IN  IF ~fix THEN m
        ELSE [m EXCEPT ![f].lines = WriteLines(DropFutureImports(lines), sep),
                       ![f].mtime = t]

\* lib2to3.main.main(..., "-n", "-w", filename) returning 0 at time t: the
\* file is rewritten in place when the fixers changed something
Refactored(m, f, t, stage) ==
    IF NeedsRewrite(f)
    THEN [m EXCEPT ![f].stage = stage, ![f].mtime = t]
    ELSE [m EXCEPT ![f].stage = stage]

(* ----------------------------- state ------------------------------------ *)
VARIABLES
    src,       \* the source tree (python2_source)
    mir,       \* the mirror tree (python3_source)
    py3root,   \* whether "build" and python3_source exist
    usCopy,    \* whether this Python copies time stamps to the microsecond only
    linesep,   \* os.linesep: "lf" or "crlf"
    now,       \* the clock, in milliseconds
    events,    \* invocations, edits and faults so far
    pc,        \* where the program is
    children,  \* main: the children still to process, the current one first
    queue,     \* run2to3: filenames
    cur,       \* run2to3: filename, or Unbound
    stderr,    \* sys.stderr: "real" or "handle" (the StringIO)
    times,     \* run2to3: the files timed so far
    result,    \* how the last invocation ended
    copied,    \* this run: the files shutil.copy2 wrote
    queued,    \* this run: the files appended to to_convert
    invoked,   \* this run: the files lib2to3 was called on
    failed,    \* this run: the files lib2to3 returned nonzero on
    finished,  \* this run: the files both lib2to3 calls returned 0 on
    batch,     \* run2to3: the sorted list it was called with
    synced,    \* this run: the children whose do_update returned
    pruned,    \* this run: the mirror entries the prune pass removed
    stable,    \* the last run ended normally and the source is as it was then
    rerun,     \* this run started with stable true
    aborted,   \* the last run ended on a failure or an interrupt and the
               \* source is as it was then
    retry,     \* how the run before this one ended if this run started with
               \* aborted true, "no" otherwise
    handle,    \* run2to3: what the StringIO holds (the calls that wrote to it)
    emitted    \* this run: the diagnostics of 2to3 written to the real stderr

vars == <<src, mir, py3root, usCopy, linesep, now, events, pc, children, queue, cur,
          stderr, times, result, copied, queued, invoked, failed, finished,
          batch, synced, pruned, stable, rerun, aborted, retry, handle,
          emitted>>

histVars == <<copied, queued, invoked, failed, finished, batch, synced, pruned,
              rerun, retry>>

Unbound == <<>>

\* the children main is called with: sys.argv filtered by the known names
RunChildren == <<nBio, nDoc>>

TicksPerMs == TicksPerSec \div MilliScale
\* the time a file written now gets
WriteTime == now * TicksPerMs
\* a source edit lands on a millisecond, or just past the middle of one
SubMsOffsets == {0, (TicksPerMs \div 2) + 1}
\* the time a source file edited now gets: the clock has moved on since the
\* last event
EditTime(off) == (now + 1) * TicksPerMs + off

InitSrc ==
    [p \in Paths |->
        IF p \in {pBio, pPy3k, pSub, pDoc} THEN DirEntry
        ELSE IF p = pX THEN NoEntry
        ELSE FileEntry(TicksPerMs, SrcLines(p), "copied")]

Init ==
    /\ src = InitSrc
    /\ mir = EmptyTree
    /\ py3root = FALSE
    /\ usCopy \in BOOLEAN
    /\ linesep = "lf"
    /\ now = 1
    /\ events = 0
    /\ pc = "idle"
    /\ children = <<>>
    /\ queue = <<>>
    /\ cur = Unbound
    /\ stderr = "real"
    /\ times = <<>>
    /\ result = "none"
    /\ copied = {}
    /\ queued = {}
    /\ invoked = {}
    /\ failed = {}
    /\ finished = {}
    /\ batch = <<>>
    /\ synced = {}
    /\ pruned = {}
    /\ stable = FALSE
    /\ rerun = FALSE
    /\ aborted = FALSE
    /\ retry = "no"
    /\ handle = {}
    /\ emitted = {}

(* ----------------------------- the developer ---------------------------- *)
EditablePaths == {fA, fD, fK, fN, fT, pX}
RemovableDirs == {pPy3k, pSub, pDoc, pX}

Edited(s) ==
    /\ pc = "idle"
    /\ events < MaxEvents
    /\ src' = s
    /\ events' = events + 1
    /\ now' = now + 1
    /\ stable' = FALSE
    /\ aborted' = FALSE
    /\ synced' = {}
    /\ UNCHANGED <<mir, py3root, usCopy, linesep, pc, children, queue, cur,
                   stderr, times, result, copied, queued, invoked, failed,
                   finished, batch, pruned, rerun, retry, handle, emitted>>

\* write (create or modify) a source file
Touch ==
    \E p \in EditablePaths, off \in SubMsOffsets :
        /\ IsDir(src, Parent(p))
        /\ ~IsDir(src, p)
        /\ Edited([src EXCEPT ![p] = FileEntry(EditTime(off), SrcLines(p), "copied")])

DeleteFile ==
    \E p \in EditablePaths :
        /\ IsFile(src, p)
        /\ Edited(Remove(src, p))

DeleteTree ==
    \E d \in RemovableDirs :
        /\ IsDir(src, d)
        /\ Edited(RmTree(src, d))

MakeDir ==
    \E d \in RemovableDirs :
        /\ src[d].kind = "none"
        /\ Len(d) = 1 \/ IsDir(src, Parent(d))
        /\ Edited(Mkdir(src, d))

\* replace a file by a directory of the same name, or the reverse
Retype ==
    \E p \in DirPaths \cap FilePaths :
        \/ /\ IsFile(src, p)
           /\ Edited(Mkdir(src, p))
        \/ /\ IsDir(src, p)
           /\ Edited([RmTree(src, p) EXCEPT ![p] = FileEntry(EditTime(0), SrcLines(p), "copied")])

(* ----------------------------- main ------------------------------------- *)
\* python do2to3.py: a new process; main up to its loop over the children
StartMain ==
    /\ pc = "idle"
    /\ events < MaxEvents
    /\ events' = events + 1
    /\ now' = now + 1
    /\ py3root' = TRUE
    /\ children' = RunChildren
    /\ pc' = "main"
    /\ stderr' = "real"
    /\ result' = "running"
    /\ queue' = <<>>
    /\ cur' = Unbound
    /\ times' = <<>>
    /\ batch' = <<>>
    /\ copied' = {}
    /\ queued' = {}
    /\ invoked' = {}
    /\ failed' = {}
    /\ finished' = {}
    /\ synced' = {}
    /\ pruned' = {}
    /\ rerun' = stable
    /\ stable' = FALSE
    /\ retry' = IF aborted THEN result ELSE "no"
    /\ handle' = {}
    /\ emitted' = {}
    /\ aborted' = FALSE
    /\ UNCHANGED <<src, mir, usCopy, linesep>>

\* the ways a run ends on a failed conversion or on an interrupt
AbortResults == {"RuntimeError", "exit1", "UnboundLocalError", "OSError"}

\* the process ends: the exception, the exit status or the normal end
Ended(how) ==
    /\ pc' = "idle"
    /\ result' = how
    /\ stable' = (how = "ok")
    /\ aborted' = (how \in AbortResults)

\* "for child in children" is exhausted: "Python 2to3 processing done."
MainDone ==
    /\ pc = "main"
    /\ children = <<>>
    /\ Ended("ok")
    /\ UNCHANGED <<src, mir, py3root, usCopy, linesep, now, events, children, queue,
                   cur, stderr, times, histVars, handle, emitted>>

\* DoUpdateMissing with the mirror folder made before the source is tested
DoUpdateMissingMkdirFirst ==
    /\ pc = "main"
    /\ children # <<>>
    /\ ~IsDir(src, <<Head(children)>>)
    /\ mir' = IF ~IsDir(mir, <<Head(children)>>)
              THEN Mkdir(mir, <<Head(children)>>) ELSE mir
    /\ Ended("ValueError")
    /\ UNCHANGED <<src, py3root, usCopy, linesep, now, events, children, queue,
                   cur, stderr, times, histVars, handle, emitted>>

\* do_update on a source folder that does not exist
DoUpdateMissing ==
    /\ pc = "main"
    /\ children # <<>>
    /\ ~IsDir(src, <<Head(children)>>)
    /\ Ended("ValueError")
    /\ UNCHANGED <<src, mir, py3root, usCopy, linesep, now, events, children, queue,
                   cur, stderr, times, histVars, handle, emitted>>

\* Finally without the assignment
FinallyForgets(s) == s
\* the "finally" of run2to3
Finally(s) == "real"

\* do_update(child) from its first line to the call of run2to3 (whose lines
\* up to "while filenames" are included) or, with nothing to convert, to its
\* return
DoUpdate ==
    /\ pc = "main"
    /\ children # <<>>
    /\ IsDir(src, <<Head(children)>>)
    /\ \E desc \in BOOLEAN :
        LET child == Head(children)
            st == SyncTree(src, mir, child, desc, usCopy)
            kept == PrunedTree(src, mir, child, desc)
        IN  /\ mir' = st.mir
            /\ pruned' = pruned \cup { p \in Paths : mir[p].kind # "none" /\ kept[p].kind = "none" }
            /\ copied' = copied \cup st.copied
            /\ queued' = queued \cup Range(st.to_convert)
            /\ IF st.err # "none"
               THEN /\ Ended(st.err)
                    /\ UNCHANGED <<children, queue, cur, stderr, times, batch,
                                   synced, handle>>
               ELSE IF st.to_convert # <<>>
               THEN /\ queue' = Sorted(st.to_convert)
                    /\ batch' = Sorted(st.to_convert)
                    /\ cur' = Unbound
                    /\ times' = <<>>
                    /\ stderr' = "handle"
                    /\ handle' = {}
                    /\ pc' = "loop"
                    /\ UNCHANGED <<children, result, stable, aborted, synced>>
               ELSE /\ children' = Tail(children)
                    /\ synced' = synced \cup {child}
                    /\ UNCHANGED <<pc, result, stable, aborted, queue, cur, stderr,
                                   times, batch, handle>>
    /\ UNCHANGED <<src, py3root, usCopy, linesep, now, events, invoked, failed,
                   finished, rerun, retry, emitted>>

(* ----------------------------- run2to3 ---------------------------------- *)
\* what lib2to3 writes to sys.stderr during a call goes into the StringIO
\* while sys.stderr is the handle, and to the real stream otherwise
Captured(stream, buf, d) == IF stream = "handle" THEN buf \cup {d} ELSE buf
Leaked(stream, out, d) == IF stream = "handle" THEN out ELSE out \cup {d}

\* the status lib2to3.main.main can return: 0, or 1 (a fault) while the
\* behaviour has events left
Statuses == IF events < MaxEvents THEN {0, 1} ELSE {0}

\* "while filenames:" is false: the try block ends, finally restores stderr,
\* the timings are sorted and reported, run2to3 and do_update return
LoopExit ==
    /\ pc = "loop"
    /\ queue = <<>>
    /\ stderr' = Finally(stderr)
    /\ pc' = "main"
    /\ synced' = synced \cup {Head(children)}
    /\ children' = Tail(children)
    /\ UNCHANGED <<src, mir, py3root, usCopy, linesep, now, events, queue, cur,
                   times, result, copied, queued, invoked, failed, finished,
                   batch, pruned, stable, aborted, rerun, retry, handle,
                   emitted>>

\* "filename = filenames.pop(0)" and avoid_bug19111(filename)
Pop ==
    /\ pc = "loop"
    /\ queue # <<>>
    /\ cur' = Head(queue)
    /\ queue' = Tail(queue)
    /\ mir' = AvoidBug19111(mir, Head(queue), WriteTime, linesep)
    /\ pc' = "main2to3"
    /\ UNCHANGED <<src, py3root, usCopy, linesep, now, events, children, stderr,
                   times, result, histVars, handle, emitted, stable, aborted>>

\* Main2to3 going on to the doctest call whatever the status
Main2to3IgnoresStatus ==
    /\ pc = "main2to3"
    /\ invoked' = invoked \cup {cur}
    /\ handle' = Captured(stderr, handle, <<cur, "main">>)
    /\ emitted' = Leaked(stderr, emitted, <<cur, "main">>)
    /\ \E e \in Statuses :
        /\ pc' = "doctest"
        /\ IF e # 0
           THEN /\ failed' = failed \cup {cur}
                /\ events' = events + 1
                /\ UNCHANGED mir
           ELSE /\ mir' = Refactored(mir, cur, WriteTime, "partial")
                /\ UNCHANGED <<failed, events>>
    /\ UNCHANGED <<src, py3root, usCopy, linesep, now, children, queue, cur,
                   stderr, times, result, copied, queued, finished, batch,
                   synced, pruned, stable, aborted, rerun, retry>>

\* "e = lib2to3.main.main("lib2to3.fixes", args + [filename])"
Main2to3 ==
    /\ pc = "main2to3"
    /\ invoked' = invoked \cup {cur}
    /\ handle' = Captured(stderr, handle, <<cur, "main">>)
    /\ emitted' = Leaked(stderr, emitted, <<cur, "main">>)
    /\ \E e \in Statuses :
        IF e # 0
        THEN /\ pc' = "fail_dump"
             /\ failed' = failed \cup {cur}
             /\ events' = events + 1
             /\ UNCHANGED mir
        ELSE /\ pc' = "doctest"
             /\ mir' = Refactored(mir, cur, WriteTime, "partial")
             /\ UNCHANGED <<failed, events>>
    /\ UNCHANGED <<src, py3root, usCopy, linesep, now, children, queue, cur,
                   stderr, times, result, copied, queued, finished, batch,
                   synced, pruned, stable, aborted, rerun, retry>>

\* "e = lib2to3.main.main("lib2to3.fixes", args + ["-d", filename])"
Doctest2to3 ==
    /\ pc = "doctest"
    /\ handle' = Captured(stderr, handle, <<cur, "doctest">>)
    /\ emitted' = Leaked(stderr, emitted, <<cur, "doctest">>)
    /\ \E e \in Statuses :
        IF e # 0
        THEN /\ pc' = "fail_dump"
             /\ failed' = failed \cup {cur}
             /\ events' = events + 1
             /\ UNCHANGED <<mir, finished>>
        ELSE /\ pc' = "append"
             /\ mir' = Refactored(mir, cur, WriteTime, "converted")
             /\ finished' = finished \cup {cur}
             /\ UNCHANGED <<failed, events>>
    /\ UNCHANGED <<src, py3root, usCopy, linesep, now, children, queue, cur,
                   stderr, times, result, copied, queued, invoked, batch,
                   synced, pruned, stable, aborted, rerun, retry>>

\* "times.append((time.time() - start, filename))"
AppendTime ==
    /\ pc = "append"
    /\ times' = Append(times, cur)
    /\ pc' = "loop"
    /\ UNCHANGED <<src, mir, py3root, usCopy, linesep, now, events, children, queue,
                   cur, stderr, result, histVars, handle, emitted, stable, aborted>>

\* FailDump without "sys.stderr.write(handle.getvalue())"
FailDumpSilent ==
    /\ pc = "fail_dump"
    /\ stderr' = "real"
    /\ pc' = "fail_remove"
    /\ UNCHANGED <<src, mir, py3root, usCopy, linesep, now, events, children, queue,
                   cur, times, result, histVars, handle, emitted, stable,
                   aborted>>

\* "if e != 0: sys.stderr = stderr; sys.stderr.write(handle.getvalue())"
FailDump ==
    /\ pc = "fail_dump"
    /\ stderr' = "real"
    /\ emitted' = emitted \cup handle
    /\ pc' = "fail_remove"
    /\ UNCHANGED <<src, mir, py3root, usCopy, linesep, now, events, children, queue,
                   cur, times, result, histVars, handle, stable, aborted>>

\* "for filename in filenames: if os.path.isfile(filename): os.remove(filename)"
RECURSIVE RemoveQueued(_, _)
RemoveQueued(m, filenames) ==
    IF filenames = <<>> THEN m
    ELSE LET f == Head(filenames)
             m1 == IF IsFile(m, f) THEN Remove(m, f) ELSE m
         IN  RemoveQueued(m1, Tail(filenames))

\* FailRemove without the os.remove
FailRemoveSkipped ==
    /\ pc = "fail_remove"
    /\ pc' = "fail_raise"
    /\ UNCHANGED <<src, mir, py3root, usCopy, linesep, now, events, children, queue, cur,
                   stderr, times, result, histVars, handle, emitted, stable, aborted>>

\* FailRemove removing the files still queued as well, as the interrupt
\* handler does
FailRemoveQueuedToo ==
    /\ pc = "fail_remove"
    /\ mir' = RemoveQueued(Remove(mir, cur), queue)
    /\ pc' = "fail_raise"
    /\ UNCHANGED <<src, py3root, usCopy, linesep, now, events, children, queue, cur,
                   stderr, times, result, histVars, handle, emitted, stable, aborted>>

\* "os.remove(filename)  # Don't want a half edited file!"
FailRemove ==
    /\ pc = "fail_remove"
    /\ mir' = Remove(mir, cur)
    /\ pc' = "fail_raise"
    /\ UNCHANGED <<src, py3root, usCopy, linesep, now, events, children, queue, cur,
                   stderr, times, result, histVars, handle, emitted, stable, aborted>>

\* FailRaise with the error swallowed: the loop goes on with the next file
FailRaiseContinues ==
    /\ pc = "fail_raise"
    /\ stderr' = "handle"
    /\ pc' = "loop"
    /\ UNCHANGED <<src, mir, py3root, usCopy, linesep, now, events, children, queue,
                   cur, times, result, histVars, handle, emitted, stable, aborted>>

\* "raise RuntimeError(...)": through finally, do_update and main
FailRaise ==
    /\ pc = "fail_raise"
    /\ stderr' = Finally(stderr)
    /\ Ended("RuntimeError")
    /\ UNCHANGED <<src, mir, py3root, usCopy, linesep, now, events, children, queue,
                   cur, times, histVars, handle, emitted>>

\* the places of the try block a KeyboardInterrupt can arrive at
TryPcs == {"loop", "main2to3", "doctest", "append", "fail_dump", "fail_remove",
           "fail_raise"}

\* "except KeyboardInterrupt:" to the end of the handler, then finally
Interrupt ==
    /\ pc \in TryPcs
    /\ events < MaxEvents
    /\ events' = events + 1
    /\ stderr' = Finally("real")
    /\ IF cur = Unbound
       THEN \* "Interrupted during %s" % filename: filename is not bound yet
            /\ Ended("UnboundLocalError")
            /\ UNCHANGED mir
       ELSE IF ~IsFile(mir, cur)
       THEN \* os.remove(filename): the file is gone already
            /\ Ended("OSError")
            /\ UNCHANGED mir
       ELSE /\ mir' = RemoveQueued(Remove(mir, cur), queue)
            /\ Ended("exit1")
    /\ UNCHANGED <<src, py3root, usCopy, linesep, now, children, queue, cur,
                   times, histVars, handle, emitted>>

Next ==
    \/ Touch
    \/ DeleteFile
    \/ DeleteTree
    \/ MakeDir
    \/ Retype
    \/ StartMain
    \/ MainDone
    \/ DoUpdateMissing
    \/ DoUpdate
    \/ LoopExit
    \/ Pop
    \/ Main2to3
    \/ Doctest2to3
    \/ AppendTime
    \/ FailDump
    \/ FailRemove
    \/ FailRaise
    \/ Interrupt

Spec == Init /\ [][Next]_vars

(* ----------------------------- the staleness test on its own ------------ *)
\* the fractions of a millisecond tried: 0, 1/4, just below 1/2, 1/2, just
\* above 1/2, 3/4
CmpFractions ==
    {0, TicksPerMs \div 4, (TicksPerMs \div 2) - 1, TicksPerMs \div 2,
     (TicksPerMs \div 2) + 1, (3 * TicksPerMs) \div 4}
CmpTimes == { ms * TicksPerMs + f : ms \in 1..MaxCmpMs, f \in CmpFractions }

\* one source file, Bio/d.bin, with mtime s; its mirror file is missing or
\* has mtime m
CmpInit ==
    /\ \E s \in CmpTimes :
          src = [EmptyTree EXCEPT ![pBio] = DirEntry,
                                  ![fD] = FileEntry(s, SrcLines(fD), "copied")]
    /\ \E m \in CmpTimes \cup {0} :
          mir = [EmptyTree EXCEPT ![pBio] = DirEntry,
                                  ![fD] = IF m = 0 THEN NoEntry
                                          ELSE FileEntry(m, SrcLines(fD), "copied")]
    /\ py3root = TRUE
    /\ usCopy \in BOOLEAN
    /\ linesep = "lf"
    /\ now = 1
    /\ events = 0
    /\ pc = "cmp"
    /\ children = <<nBio>>
    /\ queue = <<>>
    /\ cur = Unbound
    /\ stderr = "real"
    /\ times = <<>>
    /\ result = "none"
    /\ copied = {}
    /\ queued = {}
    /\ invoked = {}
    /\ failed = {}
    /\ finished = {}
    /\ batch = <<>>
    /\ synced = {}
    /\ pruned = {}
    /\ stable = FALSE
    /\ rerun = FALSE
    /\ aborted = FALSE
    /\ retry = "no"
    /\ handle = {}
    /\ emitted = {}

\* the body of "for f in filenames" of the copy pass for f = "d.bin" in
\* "./Bio": result records whether the file was found current or copied
Compare ==
    /\ pc = "cmp"
    /\ LET st == CopyFile(src, CopyState(mir), nBio, <<>>, nData, usCopy)
       IN  /\ mir' = st.mir
           /\ copied' = st.copied
           /\ result' = IF st.copied = {} THEN "current" ELSE "stale"
    /\ pc' = "compared"
    /\ UNCHANGED <<src, py3root, usCopy, linesep, now, events, children, queue, cur,
                   stderr, times, queued, invoked, failed, finished, batch,
                   synced, pruned, stable, rerun, aborted, retry, handle,
                   emitted>>

CmpNext == Compare

CmpSpec == CmpInit /\ [][CmpNext]_vars

(* ----------------------------- avoid_bug19111 on its own ---------------- *)
PatchTexts == {tFuture, tCode, tIndented, tBare}
PatchEols == {"lf", "crlf"}

\* the files tried: up to MaxLines lines, each terminated by \n or \r\n,
\* the last one possibly not terminated
PatchFiles ==
    UNION { { ls \in [1..n -> { Line(t, e) : t \in PatchTexts,
                                             e \in PatchEols \cup {"none"} }] :
                \A i \in 1..n : ls[i].eol = "none" => i = n }
            : n \in 0..MaxLines }

\* Bio/a.py is in the mirror, copied a millisecond ago
PatchInit ==
    /\ src = InitSrc
    /\ \E ls \in PatchFiles :
          mir = [EmptyTree EXCEPT ![pBio] = DirEntry,
                                  ![fA] = FileEntry(TicksPerMs, ls, "copied")]
    /\ py3root = TRUE
    /\ usCopy = FALSE
    /\ linesep \in PatchEols
    /\ now = 2
    /\ events = 0
    /\ pc = "patch0"
    /\ children = <<nBio>>
    /\ queue = <<>>
    /\ cur = fA
    /\ stderr = "handle"
    /\ times = <<>>
    /\ result = "running"
    /\ copied = {fA}
    /\ queued = {fA}
    /\ invoked = {}
    /\ failed = {}
    /\ finished = {}
    /\ batch = <<fA>>
    /\ synced = {}
    /\ pruned = {}
    /\ stable = FALSE
    /\ rerun = FALSE
    /\ aborted = FALSE
    /\ retry = "no"
    /\ handle = {}
    /\ emitted = {}

PatchPcs == {"patch0", "patch1"}

\* avoid_bug19111("Bio/a.py"), a first and a second time, a millisecond apart
Patch ==
    /\ pc \in PatchPcs
    /\ mir' = AvoidBug19111(mir, fA, WriteTime, linesep)
    /\ now' = now + 1
    /\ pc' = IF pc = "patch0" THEN "patch1" ELSE "patch2"
    /\ UNCHANGED <<src, py3root, usCopy, linesep, events, children, queue, cur,
                   stderr, times, result, copied, queued, invoked, failed,
                   finished, batch, synced, pruned, stable, rerun, aborted,
                   retry, handle, emitted>>

PatchNext == Patch

PatchSpec == PatchInit /\ [][PatchNext]_vars

(* ----------------------------- claims ----------------------------------- *)
\* C1 (idempotence): a run that starts with the source tree as it was at
\* the normal end of the previous run copies no file, queues no file and
\* calls the transformation on no file.
C1_Idempotent == rerun => (copied = {} /\ queued = {} /\ invoked = {})


\* C2 (no orphans): once do_update has returned for a child, every file of
\* that child's mirror has a file, and every directory a directory, at the
\* same relative path in the source tree.
UnderChild(c) == { p \in Paths : IsUnder(p, <<c>>) }
C2_NoOrphans ==
    \A c \in synced : \A p \in UnderChild(c) :
        /\ mir[p].kind = "file" => src[p].kind = "file"
        /\ mir[p].kind = "dir" => src[p].kind = "dir"

\* C2 witness: a directory removed from the source since the last run was
\* pruned with the file it held, and do_update returned.
C2_Witness ==
    /\ nBio \in synced
    /\ pSub \in pruned
    /\ fN \in pruned
    /\ mir[pSub].kind = "none"
    /\ mir[fN].kind = "none"

\* the exceptions and exits an interrupt ends the run with
InterruptResults == {"exit1", "UnboundLocalError", "OSError"}

\* C3 (no half-converted files): when the run has ended, no file the
\* transformation returned nonzero on exists in the mirror, and the run did
\* not end normally: it ended with RuntimeError unless an interrupt
\* arrived before the exception left run2to3.
C3_NoHalfConverted ==
    (pc = "idle" /\ failed # {}) =>
        /\ \A f \in failed : mir[f].kind = "none"
        /\ result \in {"RuntimeError"} \cup InterruptResults

\* C3 witness: the doctest pass failed on a file whose main body had been
\* converted, and the run has ended with RuntimeError.
C3_Witness ==
    /\ pc = "idle"
    /\ result = "RuntimeError"
    /\ fA \in failed
    /\ fA \in invoked
    /\ fN \in finished

\* C4 (interrupt cleanup): after an interrupt during run2to3 the files of
\* the batch that were fully converted are in the mirror in converted
\* form, every other file of the batch is absent, and the exit status is 1.
C4_InterruptCleanup ==
    (pc = "idle" /\ result \in InterruptResults) =>
        /\ result = "exit1"
        /\ \A f \in Range(batch) :
             IF f \in finished
             THEN mir[f].kind = "file" /\ mir[f].stage = "converted"
             ELSE mir[f].kind = "none"


\* the program is about to run do_update(c) on an existing source folder:
\* the prune pass and the copy pass are its next step
SyncStep(c) ==
    /\ pc = "main"
    /\ children # <<>>
    /\ Head(children) = c
    /\ IsDir(src, <<c>>)

\* the source files of child c that no exclusion rule names
MirroredFiles(c) ==
    { p \in (UnderChild(c) \cap FilePaths) \ IgnoredPaths : src[p].kind = "file" }

\* the mirror copy of p is missing, or older than the source to the nearest
\* millisecond
Stale(p) == mir[p].kind # "file" \/ RoundMs(mir[p].mtime) < RoundMs(src[p].mtime)

\* C5 as claimed (timestamp monotonicity): a stale or missing mirror file
\* is copied and has exactly the source's mtime right after the copy; a
\* mirror file with mtime >= the source's is left untouched, neither
\* copied nor queued.
C5_CopyEqualsT ==
    [][\A c \in Range(RunChildren) : SyncStep(c) =>
         \A p \in MirroredFiles(c) :
            /\ Stale(p) =>
                 /\ p \in copied'
                 /\ mir'[p].kind = "file"
                 /\ mir'[p].mtime = src[p].mtime
            /\ (mir[p].kind = "file" /\ mir[p].mtime >= src[p].mtime) =>
                 /\ mir'[p] = mir[p]
                 /\ p \notin copied'
                 /\ p \notin queued']_vars

\* C5 as amended: the mtime right after the copy is the source's or the
\* source's cut to whole microseconds (less than 0.1 ms below it); a mirror
\* file that is not stale to the nearest millisecond is left untouched.
C5_CopyWithinTolerance ==
    [][\A c \in Range(RunChildren) : SyncStep(c) =>
         \A p \in MirroredFiles(c) :
            IF Stale(p)
            THEN /\ p \in copied'
                 /\ mir'[p].kind = "file"
                 /\ mir'[p].mtime <= src[p].mtime
                 /\ (src[p].mtime - mir'[p].mtime) * TolPerSec < TicksPerSec
                 /\ (src[p].mtime - mir'[p].mtime) * MicroScale < TicksPerSec
            ELSE /\ mir'[p] = mir[p]
                 /\ p \notin copied'
                 /\ p \notin queued']_vars

\* C5 witness: in one run a stale mirror file was copied again and now has
\* the source's mtime, while a current one was left as converted.
C5_Witness ==
    /\ pc = "main"
    /\ nBio \in synced
    /\ fD \in copied
    /\ mir[fD].mtime = src[fD].mtime
    /\ src[fD].mtime > TicksPerMs
    /\ fK \notin copied
    /\ mir[fK].kind = "file"
    /\ mir[fA].stage = "converted"
    /\ fA \notin copied

\* C6 (exclusion rules): a file named .a.py, a.py~, a.bak, a.swp, a.pyc or
\* a$py.class is never in the mirror, never copied, never queued and never
\* converted.
C6_IgnoredNeverMirrored ==
    \A p \in IgnoredPaths :
        /\ mir[p].kind = "none"
        /\ p \notin copied
        /\ p \notin queued
        /\ p \notin invoked

\* C6 witness: a run over a source folder holding all six such files has
\* ended normally, with the other files of the folder mirrored.
C6_Witness ==
    /\ pc = "idle"
    /\ result = "ok"
    /\ \A p \in IgnoredPaths : src[p].kind = "file"
    /\ mir[fD].kind = "file"
    /\ mir[fA].stage = "converted"

\* the .py files below Bio/_py3k
Py3kFiles == {fK, fN}

\* C7 (excluded subtree): a .py file below Bio/_py3k is copied when its
\* mirror copy is missing or stale, and is never queued for conversion nor
\* handed to the transformation.
C7_Py3kNeverConverted ==
    [][/\ \A p \in Py3kFiles : p \notin queued' /\ p \notin invoked'
       /\ SyncStep(nBio) =>
            \A p \in Py3kFiles \cap MirroredFiles(nBio) :
                Stale(p) => (p \in copied' /\ mir'[p].kind = "file")]_vars

\* the paths with the source-text extension
PyPaths == {fA, fK, fN, fT}

\* what do_update(c) queues in this step, and what it copies
NewlyQueued == queued' \ queued
NewlyCopied == copied' \ copied

\* C8 as claimed (queue membership): after the copy pass the queue holds
\* every .py source file outside Bio/_py3k that was copied in this run or
\* was found current, and no file without the .py extension.
C8_QueueCopiedOrCurrent ==
    [][\A c \in Range(RunChildren) : SyncStep(c) =>
         /\ \A p \in (MirroredFiles(c) \cap PyPaths) :
               (~IsUnder(p, pPy3k) /\ (p \in NewlyCopied \/ ~Stale(p)))
                    => p \in NewlyQueued
         /\ NewlyQueued \subseteq PyPaths]_vars

\* C8 as amended: the queue holds every .py source file outside Bio/_py3k
\* that was copied in this run, only files copied in this run (none that
\* was found current), and no file without the .py extension.
C8_QueueFreshlyCopied ==
    [][\A c \in Range(RunChildren) : SyncStep(c) =>
         /\ \A p \in (MirroredFiles(c) \cap PyPaths) :
               (~IsUnder(p, pPy3k) /\ p \in NewlyCopied) => p \in NewlyQueued
         /\ NewlyQueued \subseteq (PyPaths \cap NewlyCopied)
         /\ queue' = <<>> \/ Range(queue') = NewlyQueued]_vars

\* C8 witness: in one run a.py was copied and queued, while d.bin is
\* mirrored and not queued and n.py was found current and not queued.
C8_Witness ==
    /\ pc = "loop"
    /\ fA \in copied /\ fA \in Range(queue)
    /\ mir[fD].kind = "file" /\ fD \notin queued
    /\ mir[fN].stage = "converted" /\ fN \notin copied /\ fN \notin queued

\* C9 (precondition error): do_update on a missing source folder raises
\* ValueError and changes nothing in the mirror; on an existing source
\* folder it leaves the mirror root created.
C9_MissingSourceRoot ==
    [][/\ (pc = "main" /\ children # <<>> /\ ~IsDir(src, <<Head(children)>>)) =>
            /\ pc' = "idle"
            /\ result' = "ValueError"
            /\ mir' = mir
            /\ copied' = copied /\ queued' = queued /\ invoked' = invoked
       /\ \A c \in Range(RunChildren) : SyncStep(c) => mir'[<<c>>].kind = "dir"]_vars

\* C9 witness: do_update raised ValueError for Doc, whose mirror root does
\* not exist, after creating the mirror root of Bio.
C9_Witness ==
    /\ pc = "idle"
    /\ result = "ValueError"
    /\ src[pDoc].kind = "none"
    /\ mir[pDoc].kind = "none"
    /\ mir[pBio].kind = "dir"

\* C10 (stderr restored): whenever the program is outside the try block of
\* run2to3, sys.stderr is the stream it was on entry.
C10_StderrRestored == (pc \notin TryPcs) => stderr = "real"

\* C10 witness: run2to3 was left by an error raised in the interrupt
\* handler itself, and by then had captured stderr.
C10_Witness ==
    /\ pc = "idle"
    /\ result = "OSError"
    /\ batch # <<>>
    /\ stderr = "real"

\* the places of run2to3 between a nonzero status and its raise
FailPcs == {"fail_dump", "fail_remove", "fail_raise"}

\* how far the handling of a failure has got: each step moves it on
FailRank(p) ==
    IF p = "fail_dump" THEN 1
    ELSE IF p = "fail_remove" THEN 2
    ELSE IF p = "fail_raise" THEN 3
    ELSE IF p = "idle" THEN 4
    ELSE 0

\* C11 (abort on hard failure): once the transformation has returned nonzero
\* for a file, the run does nothing but handle that failure: the
\* transformation is called on no further file, no file is copied, no
\* conversion finishes and no subtree is synchronized; every step of the
\* run takes it nearer its end, and it does not end normally: it ends with
\* RuntimeError, or with the exit of an interrupt that arrived before the
\* exception left run2to3.
C11_AbortOnFailure ==
    [][(failed # {} /\ pc # "idle") =>
          /\ invoked' \subseteq invoked
          /\ copied' \subseteq copied
          /\ finished' \subseteq finished
          /\ synced' \subseteq synced
          /\ children' = children
          /\ pc \in FailPcs
          /\ FailRank(pc') > FailRank(pc)
          /\ pc' = "idle" => result' \in {"RuntimeError"} \cup InterruptResults]_vars

\* C11 witness: the first file of the batch failed and the run has ended with
\* RuntimeError; the file queued behind it was never handed to the
\* transformation and the next child, Doc, was never synchronized.
C11_Witness ==
    /\ pc = "idle"
    /\ result = "RuntimeError"
    /\ failed = {fN}
    /\ batch = <<fN, fA>>
    /\ fA \notin invoked
    /\ children = RunChildren
    /\ src[fT].kind = "file"
    /\ mir[pDoc].kind = "none"

\* the .py source files the claims count as convertible: not ignored, not
\* below Bio/_py3k, below one of the children main processes
Convertible ==
    { p \in PyPaths \ IgnoredPaths :
        /\ ~IsUnder(p, pPy3k)
        /\ Head(p) \in Range(RunChildren)
        /\ src[p].kind = "file" }

\* C12 (re-run is the retry): when a run that started after an aborted run,
\* with the source tree unchanged since, has ended normally, every
\* convertible .py source file is in the mirror in converted form.
C12_RetryConvertsAll ==
    (pc = "idle" /\ result = "ok" /\ retry # "no") =>
        \A p \in Convertible :
            mir[p].kind = "file" /\ mir[p].stage = "converted"

\* C13 (per-file protocol): the doctest call on a file follows the main
\* call on the same file and is made only when that returned 0; a file gets
\* its timing entry, and counts as converted, only when both calls returned
\* 0 on it; and the next file is popped only when the current one has its
\* timing entry.
C13_TwoCallsPerFile ==
    [][/\ pc' = "doctest" =>
            /\ pc = "main2to3"
            /\ cur' = cur
            /\ cur \in invoked'
            /\ cur \notin failed'
            /\ mir'[cur].stage = "partial"
       /\ (finished' # finished /\ finished' # {}) =>
            /\ pc = "doctest"
            /\ finished' = finished \cup {cur}
            /\ cur \in invoked
            /\ cur \notin failed'
            /\ mir'[cur].stage = "converted"
       /\ (times' # times /\ times' # <<>>) =>
            /\ pc = "append"
            /\ times' = Append(times, cur)
            /\ cur \in finished
       /\ (cur' # cur /\ cur' # Unbound) =>
            /\ pc = "loop"
            /\ cur' = Head(queue)
            /\ cur = Unbound \/ (cur \in finished /\ cur \in Range(times))
       /\ Range(times') \subseteq finished'
       /\ finished' \cap failed' = {}]_vars

\* C13 witness: the first file of the batch went through both calls and was
\* timed; on the second the main call returned 0 and the doctest call did
\* not, so it is half converted and has no timing entry.
C13_Witness ==
    /\ pc = "fail_dump"
    /\ batch = <<fN, fA>>
    /\ times = <<fN>>
    /\ finished = {fN}
    /\ cur = fA
    /\ fA \in failed
    /\ mir[fA].stage = "partial"
    /\ mir[fN].stage = "converted"

\* the files of the batch run2to3 has popped so far, in the order popped
Started == SubSeq(batch, 1, Len(batch) - Len(queue))

\* C14 (deterministic order): while run2to3 is at work, the list it was
\* called with is in strictly ascending order of the path strings; the files
\* started so far are a prefix of it, the rest is still queued in the same
\* order, the file in hand is the last of the prefix, and the transformation
\* has been called on no file of the batch outside the prefix.
C14_SortedPrefix ==
    (pc \in TryPcs) =>
        /\ \A i, j \in 1..Len(batch) :
              i < j => StrLess(JoinPath(batch[i]), JoinPath(batch[j]))
        /\ Len(queue) <= Len(batch)
        /\ batch = Started \o queue
        /\ cur = IF Started = <<>> THEN Unbound ELSE Started[Len(Started)]
        /\ Range(batch) \cap invoked \subseteq Range(Started)
        /\ Range(times) \subseteq Range(Started)

\* C14 witness: the walk found Bio/a.py before Bio/_py3k/sub/n.py, which
\* sorts first; n.py has been converted and a.py is the file in hand.
C14_Witness ==
    /\ pc = "main2to3"
    /\ batch = <<fN, fA>>
    /\ Started = <<fN, fA>>
    /\ cur = fA
    /\ fN \in finished
    /\ fA \notin invoked

\* C15 (failure frame): while a failure is handled without an interrupt, no
\* mirror entry other than the failed file changes; when the run has ended
\* with RuntimeError the failed file is gone, every file converted before it
\* is in the mirror in converted form, and every file still queued behind it
\* is in the mirror as the unconverted copy.
C15_FailureFrame ==
    [][(pc \in FailPcs /\ result' \notin InterruptResults) =>
          /\ \A p \in Paths \ {cur} : mir'[p] = mir[p]
          /\ pc' = "idle" =>
                /\ result' = "RuntimeError"
                /\ failed' = {cur}
                /\ mir'[cur].kind = "none"
                /\ \A f \in finished' :
                      mir'[f].kind = "file" /\ mir'[f].stage = "converted"
                /\ \A f \in Range(queue') :
                      mir'[f].kind = "file" /\ mir'[f].stage = "copied"]_vars

\* C15 witness: the run ended with RuntimeError on the first file of the
\* batch, which is gone; the file queued behind it is still in the mirror,
\* unconverted.
C15_Witness ==
    /\ pc = "idle"
    /\ result = "RuntimeError"
    /\ cur = fN
    /\ mir[fN].kind = "none"
    /\ queue = <<fA>>
    /\ mir[fA].kind = "file"
    /\ mir[fA].stage = "copied"
    /\ mir[fD].kind = "file"

\* C16 (quiet on success, dump on failure): what the transformation writes
\* during the calls of a batch is held in the buffer; the real error stream
\* receives nothing of it unless a call returned nonzero, and once the
\* failure path has passed its dump (in particular when the run has ended
\* with RuntimeError) it has received all the buffer holds.
C16_DumpOnlyOnFailure ==
    /\ (pc \in TryPcs) =>
          \A f \in Range(batch) \cap invoked : <<f, "main">> \in handle
    /\ \A f \in Range(batch) \cap finished : <<f, "doctest">> \in handle
    /\ emitted # {} => failed # {}
    /\ emitted \in {{}, handle}
    /\ (failed # {} /\ pc \in {"fail_remove", "fail_raise"}) =>
          (emitted = handle /\ handle # {})
    /\ (pc = "idle" /\ result = "RuntimeError") =>
          /\ emitted = handle
          /\ \A f \in failed : \E d \in emitted : d[1] = f

\* C16 witness: the batch of Bio was converted with nothing emitted; in the
\* batch of Doc the main call failed on t.py and the run has ended with the
\* buffer of that batch, and nothing else, on the real error stream.
C16_Witness ==
    /\ pc = "idle"
    /\ result = "RuntimeError"
    /\ nBio \in synced
    /\ fA \in finished
    /\ failed = {fT}
    /\ emitted = {<<fT, "main">>}

\* C17 (mirror completeness): once do_update has returned for a child, every
\* directory of that child's source tree has a directory at the same path in
\* the mirror, and every source file no exclusion rule names has a mirror
\* file there that the staleness test finds up to date.
C17_MirrorComplete ==
    \A c \in synced :
        /\ \A d \in UnderChild(c) : src[d].kind = "dir" => mir[d].kind = "dir"
        /\ \A p \in MirroredFiles(c) : UpToDate(src, mir, p, p)

BeginsWithFutureImport(t) ==
    /\ Len(t) >= Len(FuturePrefix)
    /\ \A i \in 1..Len(FuturePrefix) : t[i] = FuturePrefix[i]
KeptLine(l) == ~BeginsWithFutureImport(l.text)
TextsOf(ls) == [i \in 1..Len(ls) |-> ls[i].text]
HasFutureImport(ls) == \E i \in 1..Len(ls) : ~KeptLine(ls[i])

\* C19 as claimed (pre-pass patch): the file after avoid_bug19111 holds
\* exactly the lines that do not start with "from future_builtins import ",
\* unchanged and in their order; the file is written if and only if it had
\* such a line; a second application changes nothing.
C19_KeepsOtherLines ==
    [][(pc \in PatchPcs) =>
         /\ mir'[fA].lines = SelectSeq(mir[fA].lines, KeptLine)
         /\ IF HasFutureImport(mir[fA].lines)
            THEN mir'[fA].mtime = WriteTime
            ELSE mir'[fA] = mir[fA]
         /\ pc = "patch1" => mir' = mir]_vars

\* C19 as amended: the texts of the other lines are kept, unchanged and in
\* their order; when the file is written, which happens if and only if it
\* had such a line, every kept line that had a terminator gets os.linesep
\* as its terminator; a second application changes nothing.
C19_KeepsOtherTexts ==
    [][(pc \in PatchPcs) =>
         LET old == mir[fA].lines
             kept == SelectSeq(old, KeptLine)
             new == mir'[fA].lines
         IN  /\ TextsOf(new) = TextsOf(kept)
             /\ IF HasFutureImport(old)
                THEN /\ mir'[fA].mtime = WriteTime
                     /\ \A i \in 1..Len(new) :
                           new[i].eol = IF kept[i].eol = "none" THEN "none"
                                        ELSE linesep
                ELSE mir'[fA] = mir[fA]
             /\ pc = "patch1" => mir' = mir]_vars

\* C19 witness: the file was written by the first application and left
\* alone by the second; the indented import and the import of nothing were
\* kept, with the terminator of a platform whose os.linesep is \r\n.
C19_Witness ==
    /\ pc = "patch2"
    /\ linesep = "crlf"
    /\ mir[fA].mtime = 2 * TicksPerMs
    /\ mir[fA].lines = <<Line(tIndented, "crlf"), Line(tBare, "crlf")>>

====
